---- MODULE Spec2Model ----
(***************************************************************************)
(* git-fatfiles (src/src/main.rs): the object-size aggregation pipeline.   *)
(*                                                                         *)
(*   main: get_revs_for_paths -> paths_to_count dump -> get_sizes_of_objects*)
(*         (writer thread || git cat-file || reader loop) -> aggregation   *)
(*         -> print_sizes.                                                 *)
(*                                                                         *)
(* Text is modelled as sequences of one-character strings, so that the     *)
(* parsing done by split_once, split, parse::<u64> and Path::parent is     *)
(* computed and not assumed.  Pipes carry whole lines; their capacity is   *)
(* counted in lines.                                                       *)
(***************************************************************************)
EXTENDS Integers, Sequences, FiniteSets, TLC

VARIABLES
    directories,     \* opt.directories
    revlist_out,     \* stdout of `git rev-list --all --objects`, as lines
    revlist_status,  \* exit status of git rev-list (output.status)
    objdb,           \* the object database git cat-file answers from
    cap_in,          \* capacity of the pipe to the child's stdin
    cap_out,         \* capacity of the pipe from the child's stdout
    pc,              \* position of the main thread
    revs_to_paths,   \* main: object id -> path
    paths_to_count,  \* main: path -> number of ids recorded at it
    ids,             \* get_sizes_of_objects: ids the writer has still to write
    wpc,             \* position of write_thread
    written,         \* number of request lines written
    stdin_pipe,      \* request lines in flight to the child
    stdin_h,         \* the ChildStdin handle: "unopened", "open", "closed"
    sub_pc,          \* git cat-file: "none", "running", "exited", "crashed"
    sub_pending,     \* the response the child has computed and not yet written
    responded,       \* number of response lines the child has written
    stdout_pipe,     \* response lines in flight to the reader
    stdout_h,        \* the child's end of its stdout: "unopened", "open", "closed"
    catfile_status,  \* exit status of git cat-file (-1 while it has none)
    sizes,           \* get_sizes_of_objects: id_map, object id -> size
    nread,           \* number of response lines the reader has consumed
    file_size_sums,  \* main: aggregation key -> accumulated size
    stdout,          \* what the run printed on standard output
    stderr,          \* what the run printed on standard error
    exit_code,       \* -1 while running, 0 on return from main, 101 on panic
    run,             \* which run of the program this is (1 or 2)
    first_stdout     \* standard output of run 1, kept for comparison

vars == << directories, revlist_out, revlist_status, objdb, cap_in, cap_out, pc,
           revs_to_paths, paths_to_count, ids, wpc, written, stdin_pipe, stdin_h,
           sub_pc, sub_pending, responded, stdout_pipe, stdout_h, catfile_status,
           sizes, nread, file_size_sums, stdout, stderr, exit_code, run,
           first_stdout >>

\* ------------------------------------------------------------------ bounds
MaxLines == 2   \* lines of rev-list output in the aggregation scenarios
MaxN == 4       \* object ids in the pipe scenarios
MaxCap == 2     \* pipe capacity, in lines

\* ------------------------------------------------------------ text helpers
SP == " "
SLASH == "/"
DigitChars == << "0", "1", "2", "3", "4", "5", "6", "7", "8", "9" >>

IsDigit(c) == \E i \in 1..10 : DigitChars[i] = c

DigitVal(c) == (CHOOSE i \in 1..10 : DigitChars[i] = c) - 1

\* Display for an unsigned integer: its decimal digits.
RECURSIVE Digits(_)
Digits(n) == IF n < 10 THEN << DigitChars[n + 1] >>
             ELSE Append(Digits(n \div 10), DigitChars[(n % 10) + 1])

\* A finite map with key k set to v (HashMap::insert).
Put(m, k, v) == [x \in (DOMAIN m) \cup {k} |-> IF x = k THEN v ELSE m[x]]

EmptyMap == [x \in {} |-> 0]

\* All orders in which the elements of a finite set can be visited
\* (the iteration order of a HashMap is unspecified).
Perms(S) == { s \in [1..Cardinality(S) -> S] : \A x \in S : \E i \in DOMAIN s : s[i] = x }

\* str::split_once(' '): << before, after >> of the first space, or << >>.
SplitOnce(line) ==
    IF \E i \in 1..Len(line) : line[i] = SP
    THEN LET i == CHOOSE j \in 1..Len(line) :
                      line[j] = SP /\ \A k \in 1..(j - 1) : line[k] # SP
         IN << SubSeq(line, 1, i - 1), SubSeq(line, i + 1, Len(line)) >>
    ELSE << >>

\* str::split(sep): the fields between separators, empty fields included.
Split(s, sep) ==
    LET seps == { i \in 1..Len(s) : s[i] = sep }
        n == Cardinality(seps)
        \* the position of the k-th separator; 0 and Len(s) + 1 bracket them
        at(k) == IF k = 0 THEN 0
                 ELSE IF k = n + 1 THEN Len(s) + 1
                 ELSE CHOOSE i \in seps : Cardinality({ j \in seps : j < i }) = k - 1
    IN [k \in 1..(n + 1) |-> SubSeq(s, at(k - 1) + 1, at(k) - 1)]

\* str::parse::<u64>: an optional '+', then one or more decimal digits.
\* << >> for Err, << n >> for Ok(n).
DigitsValue(s) ==
    LET v[i \in 0..Len(s)] == IF i = 0 THEN 0 ELSE 10 * v[i - 1] + DigitVal(s[i])
    IN v[Len(s)]

ParseU64(s) ==
    LET body == IF s # << >> /\ s[1] = "+" THEN Tail(s) ELSE s
    IN IF body # << >> /\ \A i \in 1..Len(body) : IsDigit(body[i])
       THEN << DigitsValue(body) >>
       ELSE << >>

\* Path::components of a relative path: the non-empty pieces between '/'.
Components(path) == SelectSeq(Split(path, SLASH), LAMBDA c : c # << >>)

\* Join components back into a path.
RECURSIVE JoinPath(_)
JoinPath(cs) == IF cs = << >> THEN << >>
                ELSE IF Len(cs) = 1 THEN cs[1]
                ELSE cs[1] \o << SLASH >> \o JoinPath(Tail(cs))

\* Path::parent: None (<< >>) when the path has no component at all, else
\* Some of the path without its last component; for a one-component path
\* that is Some(""), the empty path.
Parent(path) ==
    LET cs == Components(path)
    IN IF cs = << >> THEN << >>
       ELSE << JoinPath(SubSeq(cs, 1, Len(cs) - 1)) >>

\* ------------------------------------------------- the two collaborators
TBlob == << "b", "l", "o", "b" >>
TTree == << "t", "r", "e", "e" >>
TMissing == << "m", "i", "s", "s", "i", "n", "g" >>

PTop == << "R" >>                      \* "R", a top-level file
PDX == << "d", "/", "x" >>             \* "d/x"
PDY == << "d", "/", "y", " ", "z" >>   \* "d/y z", a name with a space in it
PEmpty == << >>                        \* "", the path rev-list prints for a root tree

\* A line of rev-list output: "<id> <path>" for a tree or a blob, "<id>" for
\* a commit.
AssocLine(id, path) == id \o << SP >> \o path

CommitLine == << "c" >>

RevLines == { AssocLine(<< "a" >>, p) : p \in { PTop, PDX } }
            \cup { AssocLine(<< "b" >>, p) : p \in { PDX, PDY, PEmpty } }
            \cup { CommitLine }

\* What the object database can hold for an id: a blob or a tree with its
\* size on disk, answered "<id> <type> <size>"; an object it does not have,
\* answered "<id> missing"; and a blob whose size field comes out garbled.
ObjKinds == { [type |-> TBlob, size |-> 100, form |-> "ok"],
              [type |-> TBlob, size |-> 300, form |-> "ok"],
              [type |-> TTree, size |-> 50, form |-> "ok"],
              [type |-> TBlob, size |-> 100, form |-> "missing"],
              [type |-> TBlob, size |-> 100, form |-> "garbled"] }

IdPool == << "a", "b", "e", "f", "g", "h" >>

SeqsUpTo(S, n) == UNION { [1..k -> S] : k \in 0..n }

\* The ids of the lines that carry a path.
IdsMentioned(lines) ==
    { SplitOnce(lines[i])[1] : i \in { j \in 1..Len(lines) : SplitOnce(lines[j]) # << >> } }

\* git cat-file --batch-check="%(objectname) %(objecttype) %(objectsize:disk)":
\* the response line to one request line.
Respond(id) ==
    LET o == objdb[id]
    IN CASE o.form = "missing" -> id \o << SP >> \o TMissing
         [] o.form = "garbled" -> id \o << SP >> \o o.type \o << SP >> \o Digits(o.size) \o << "x" >>
         [] OTHER -> id \o << SP >> \o o.type \o << SP >> \o Digits(o.size)

\* ------------------------------------------------------------------- Init
\* The state of a run before main has done anything.
Fresh ==
    /\ pc = "start"
    /\ revs_to_paths = EmptyMap
    /\ paths_to_count = EmptyMap
    /\ ids = << >>
    /\ wpc = "unspawned"
    /\ written = 0
    /\ stdin_pipe = << >>
    /\ stdin_h = "unopened"
    /\ sub_pc = "none"
    /\ sub_pending = << >>
    /\ responded = 0
    /\ stdout_pipe = << >>
    /\ stdout_h = "unopened"
    /\ catfile_status = -1
    /\ sizes = EmptyMap
    /\ nread = 0
    /\ file_size_sums = EmptyMap
    /\ stdout = << >>
    /\ stderr = << >>
    /\ exit_code = -1

\* Aggregation scenarios: any short rev-list output over RevLines, any
\* object database for the ids it mentions, either mode, either exit status
\* of rev-list; pipes of one line.
Init ==
    /\ directories \in BOOLEAN
    /\ revlist_out \in SeqsUpTo(RevLines, MaxLines)
    /\ revlist_status \in {0, 128}
    /\ objdb \in [IdsMentioned(revlist_out) -> ObjKinds]
    /\ cap_in = 1
    /\ cap_out = 1
    /\ run = 1
    /\ first_stdout = << >>
    /\ Fresh

\* Pipe scenarios: n well-formed blobs, every pair of pipe capacities.
InitPipes ==
    /\ directories = FALSE
    /\ \E n \in 0..MaxN : revlist_out = [i \in 1..n |-> AssocLine(<< IdPool[i] >>, PDX)]
    /\ revlist_status = 0
    /\ objdb = [id \in IdsMentioned(revlist_out) |-> [type |-> TBlob, size |-> 100, form |-> "ok"]]
    /\ cap_in \in 1..MaxCap
    /\ cap_out \in 1..MaxCap
    /\ run = 1
    /\ first_stdout = << >>
    /\ Fresh

Inputs == << directories, revlist_out, revlist_status, objdb, cap_in, cap_out >>

\* ------------------------------------------------------ get_revs_for_paths
\* One line of the parsing loop: a line with a space inserts id -> path
\* (a later line for the same id replaces the earlier one); a line without
\* a space is skipped.
InsertRev(map, line) ==
    LET kv == SplitOnce(line)
    IN IF kv # << >> THEN Put(map, kv[1], kv[2]) ELSE map

RECURSIVE ParseRevs(_, _)
ParseRevs(map, lines) ==
    IF lines = << >> THEN map
    ELSE ParseRevs(InsertRev(map, Head(lines)), Tail(lines))

\* get_revs_for_paths: runs git rev-list to completion and parses its whole
\* output.  output.status is never looked at.
Enumerate ==
    /\ pc = "start"
    /\ revs_to_paths' = ParseRevs(EmptyMap, revlist_out)
    /\ pc' = "count"
    /\ UNCHANGED << directories, revlist_out, revlist_status, objdb, cap_in, cap_out,
                    paths_to_count, ids, wpc, written, stdin_pipe, stdin_h, sub_pc,
                    sub_pending, responded, stdout_pipe, stdout_h, catfile_status,
                    sizes, nread, file_size_sums, stdout, stderr, exit_code, run,
                    first_stdout >>

\* ------------------------------------------------- main: paths_to_count
\* One step of the for_each: insert 1, and if the path was there, count + 1.
CountPath(counts, path) ==
    IF path \in DOMAIN counts THEN Put(counts, path, counts[path] + 1)
    ELSE Put(counts, path, 1)

RECURSIVE CountAll(_, _, _)
CountAll(counts, map, order) ==
    IF order = << >> THEN counts
    ELSE CountAll(CountPath(counts, map[Head(order)]), map, Tail(order))

\* main, lines 102-109: count the ids per path and print the map with {:#?},
\* in the iteration order of the HashMap.
CountPaths ==
    /\ pc = "count"
    /\ \E order \in Perms(DOMAIN revs_to_paths) :
           paths_to_count' = CountAll(EmptyMap, revs_to_paths, order)
    /\ \E dump \in Perms(DOMAIN paths_to_count') :
           stdout' = Append(stdout,
                            [kind |-> "debug",
                             entries |-> [i \in DOMAIN dump |->
                                             << dump[i], paths_to_count'[dump[i]] >>]])
    /\ pc' = "spawn"
    /\ UNCHANGED << directories, revlist_out, revlist_status, objdb, cap_in, cap_out,
                    revs_to_paths, ids, wpc, written, stdin_pipe, stdin_h, sub_pc,
                    sub_pending, responded, stdout_pipe, stdout_h, catfile_status,
                    sizes, nread, file_size_sums, stderr, exit_code, run, first_stdout >>

\* ---------------------------------------------------- get_sizes_of_objects
\* Lines 54-72: spawn git cat-file with both pipes, clone the ids (in the
\* iteration order of revs_to_paths.keys()) and start write_thread.
Spawn ==
    /\ pc = "spawn"
    /\ \E order \in Perms(DOMAIN revs_to_paths) : ids' = order
    /\ sub_pc' = "running"
    /\ stdin_h' = "open"
    /\ stdout_h' = "open"
    /\ wpc' = "writing"
    /\ pc' = "read"
    /\ UNCHANGED << Inputs, revs_to_paths, paths_to_count, written, stdin_pipe,
                    sub_pending, responded, stdout_pipe, catfile_status, sizes, nread,
                    file_size_sums, stdout, stderr, exit_code, run, first_stdout >>

\* write_thread, line 69: writeln!(stdin, "{}", obj_id).expect(..).  The
\* write blocks while the pipe is full; it fails (EPIPE) when the child has
\* gone, and the expect then panics the thread, whose unwinding drops stdin.
WriterWrite ==
    /\ exit_code = -1
    /\ wpc = "writing"
    /\ ids # << >>
    /\ IF sub_pc = "crashed"
       THEN /\ wpc' = "panicked"
            /\ stdin_h' = "closed"
            /\ UNCHANGED << ids, written, stdin_pipe >>
       ELSE /\ Len(stdin_pipe) < cap_in
            /\ stdin_pipe' = Append(stdin_pipe, Head(ids))
            /\ ids' = Tail(ids)
            /\ written' = written + 1
            /\ UNCHANGED << wpc, stdin_h >>
    /\ UNCHANGED << Inputs, pc, revs_to_paths, paths_to_count, sub_pc, sub_pending,
                    responded, stdout_pipe, stdout_h, catfile_status, sizes, nread,
                    file_size_sums, stdout, stderr, exit_code, run, first_stdout >>

\* WriterClose if stdin were dropped without waiting for the loop to end.
WriterCloseEarly ==
    /\ exit_code = -1
    /\ wpc = "writing"
    /\ stdin_h' = "closed"
    /\ wpc' = "done"
    /\ UNCHANGED << Inputs, pc, revs_to_paths, paths_to_count, ids, written, stdin_pipe,
                    sub_pc, sub_pending, responded, stdout_pipe, stdout_h,
                    catfile_status, sizes, nread, file_size_sums, stdout, stderr,
                    exit_code, run, first_stdout >>

\* write_thread, line 71: drop(stdin) after the loop, and the thread ends.
WriterClose ==
    /\ exit_code = -1
    /\ wpc = "writing"
    /\ ids = << >>
    /\ stdin_h' = "closed"
    /\ wpc' = "done"
    /\ UNCHANGED << Inputs, pc, revs_to_paths, paths_to_count, ids, written, stdin_pipe,
                    sub_pc, sub_pending, responded, stdout_pipe, stdout_h,
                    catfile_status, sizes, nread, file_size_sums, stdout, stderr,
                    exit_code, run, first_stdout >>

\* git cat-file reads one request line and computes its response.
SubRead ==
    /\ exit_code = -1
    /\ sub_pc = "running"
    /\ sub_pending = << >>
    /\ stdin_pipe # << >>
    /\ sub_pending' = << Respond(Head(stdin_pipe)) >>
    /\ stdin_pipe' = Tail(stdin_pipe)
    /\ UNCHANGED << Inputs, pc, revs_to_paths, paths_to_count, ids, wpc, written,
                    stdin_h, sub_pc, responded, stdout_pipe, stdout_h, catfile_status,
                    sizes, nread, file_size_sums, stdout, stderr, exit_code, run,
                    first_stdout >>

\* git cat-file writes the response; the write blocks while its stdout pipe
\* is full.
SubWrite ==
    /\ exit_code = -1
    /\ sub_pc = "running"
    /\ sub_pending # << >>
    /\ Len(stdout_pipe) < cap_out
    /\ stdout_pipe' = Append(stdout_pipe, sub_pending[1])
    /\ sub_pending' = << >>
    /\ responded' = responded + 1
    /\ UNCHANGED << Inputs, pc, revs_to_paths, paths_to_count, ids, wpc, written,
                    stdin_pipe, stdin_h, sub_pc, stdout_h, catfile_status, sizes, nread,
                    file_size_sums, stdout, stderr, exit_code, run, first_stdout >>

\* git cat-file sees end of input: it closes its output and exits 0.
SubEof ==
    /\ exit_code = -1
    /\ sub_pc = "running"
    /\ sub_pending = << >>
    /\ stdin_pipe = << >>
    /\ stdin_h = "closed"
    /\ sub_pc' = "exited"
    /\ stdout_h' = "closed"
    /\ catfile_status' = 0
    /\ UNCHANGED << Inputs, pc, revs_to_paths, paths_to_count, ids, wpc, written,
                    stdin_pipe, stdin_h, sub_pending, responded, stdout_pipe, sizes,
                    nread, file_size_sums, stdout, stderr, exit_code, run, first_stdout >>

\* git cat-file dies: both of its pipe ends close, what it had not yet read
\* or written is lost, and its exit status is not 0.
SubCrash ==
    /\ exit_code = -1
    /\ sub_pc = "running"
    /\ sub_pc' = "crashed"
    /\ stdout_h' = "closed"
    /\ sub_pending' = << >>
    /\ stdin_pipe' = << >>
    /\ catfile_status' = 128
    /\ UNCHANGED << Inputs, pc, revs_to_paths, paths_to_count, ids, wpc, written,
                    stdin_h, responded, stdout_pipe, sizes, nread, file_size_sums,
                    stdout, stderr, exit_code, run, first_stdout >>

\* Lines 83-86: the response line split on ' ' is [id, "blob", size].
IsBlobLine(fields) == Len(fields) = 3 /\ fields[2] = TBlob

\* InsertSize without the "blob" test of line 86: every three-field line
\* is recorded.
InsertSizeAnyType(map, fields) ==
    IF Len(fields) = 3 THEN Put(map, fields[1], ParseU64(fields[3])[1]) ELSE map

\* Lines 86-91 for a line whose size parses (or that is no blob line):
\* insert id -> size for a blob line, leave the map alone otherwise.
InsertSize(map, fields) ==
    IF IsBlobLine(fields) THEN Put(map, fields[1], ParseU64(fields[3])[1]) ELSE map

\* SizePanics if a line that is no blob line were fatal too.
SizePanicsOnOddLine(fields) == ~IsBlobLine(fields) \/ ParseU64(fields[3]) = << >>

\* Lines 86-90: the line on which size.parse::<u64>().expect(..) panics.
SizePanics(fields) == IsBlobLine(fields) /\ ParseU64(fields[3]) = << >>

\* ReaderStep if the requests were written on the main thread before the
\* read loop: no line is read until the writer is done.
ReaderStepAfterWrites ==
    /\ pc = "read"
    /\ wpc = "done"
    /\ stdout_pipe # << >>
    /\ sizes' = InsertSize(sizes, Split(Head(stdout_pipe), SP))
    /\ stdout_pipe' = Tail(stdout_pipe)
    /\ nread' = nread + 1
    /\ UNCHANGED << Inputs, pc, exit_code, revs_to_paths, paths_to_count, ids, wpc,
                    written, stdin_pipe, stdin_h, sub_pc, sub_pending, responded,
                    stdout_h, catfile_status, file_size_sums, stdout, stderr, run,
                    first_stdout >>

\* One turn of the reader loop, lines 80-92, on the main thread: take the
\* next response line, split it, and record a blob's size.
ReaderStep ==
    /\ pc = "read"
    /\ stdout_pipe # << >>
    /\ \E fields \in { Split(Head(stdout_pipe), SP) } :
          IF SizePanics(fields)
          THEN /\ pc' = "panicked"
               /\ exit_code' = 101
               /\ UNCHANGED sizes
          ELSE /\ sizes' = InsertSize(sizes, fields)
               /\ UNCHANGED << pc, exit_code >>
    /\ stdout_pipe' = Tail(stdout_pipe)
    /\ nread' = nread + 1
    /\ UNCHANGED << Inputs, revs_to_paths, paths_to_count, ids, wpc, written,
                    stdin_pipe, stdin_h, sub_pc, sub_pending, responded, stdout_h,
                    catfile_status, file_size_sums, stdout, stderr, run, first_stdout >>

\* The reader loop ends when the child's output is at end of file.
ReaderEof ==
    /\ pc = "read"
    /\ stdout_pipe = << >>
    /\ stdout_h = "closed"
    /\ pc' = "join"
    /\ UNCHANGED << Inputs, revs_to_paths, paths_to_count, ids, wpc, written,
                    stdin_pipe, stdin_h, sub_pc, sub_pending, responded, stdout_pipe,
                    stdout_h, catfile_status, sizes, nread, file_size_sums, stdout,
                    stderr, exit_code, run, first_stdout >>

\* Join if the result of join() were discarded instead of unwrapped.
JoinIgnoringResult ==
    /\ pc = "join"
    /\ wpc \in {"done", "panicked"}
    /\ pc' = "aggregate"
    /\ UNCHANGED << Inputs, revs_to_paths, paths_to_count, ids, wpc, written,
                    stdin_pipe, stdin_h, sub_pc, sub_pending, responded, stdout_pipe,
                    stdout_h, catfile_status, sizes, nread, file_size_sums, stdout,
                    stderr, exit_code, run, first_stdout >>

\* Line 93: write_thread.join().unwrap() waits for the thread and panics if
\* the thread panicked; line 94 then returns id_map.  The child is never
\* waited for and its exit status is never read.
Join ==
    /\ pc = "join"
    /\ wpc \in {"done", "panicked"}
    /\ IF wpc = "panicked"
       THEN pc' = "panicked" /\ exit_code' = 101
       ELSE pc' = "aggregate" /\ UNCHANGED exit_code
    /\ UNCHANGED << Inputs, revs_to_paths, paths_to_count, ids, wpc, written,
                    stdin_pipe, stdin_h, sub_pc, sub_pending, responded, stdout_pipe,
                    stdout_h, catfile_status, sizes, nread, file_size_sums, stdout,
                    stderr, run, first_stdout >>

\* ------------------------------------------------------ main: aggregation
\* KeyOf if the directories flag were never consulted.
KeyOfNoCollapse(path) == << path >>

\* Lines 124-134: the key a path's bytes are added to, << key >>, or << >>
\* when the path is skipped: the path itself, or in directory mode its
\* Path::parent().
KeyOf(path) == IF directories THEN Parent(path) ELSE << path >>

\* AddSize with = in place of +=.
AddSizeOverwrite(sums, key, size) == Put(sums, key, size)

\* Line 136: *(file_size_sums.entry(path).or_default()) += size.
AddSize(sums, key, size) ==
    Put(sums, key, (IF key \in DOMAIN sums THEN sums[key] ELSE 0) + size)

\* Lines 116-137 over the entries of sizes taken in `order`: the sums, and
\* the paths warned about on standard error.
RECURSIVE Aggregated(_, _)
Aggregated(acc, order) ==
    IF order = << >> THEN acc
    ELSE LET id == Head(order)
             path == revs_to_paths[id]
             key == KeyOf(path)
         IN Aggregated(
                IF key = << >>
                THEN [sums |-> acc.sums,
                      warned |-> Append(acc.warned, [kind |-> "no-parent", path |-> path])]
                ELSE [sums |-> AddSize(acc.sums, key[1], sizes[id]), warned |-> acc.warned],
                Tail(order))

\* main, lines 116-137: join the sizes back to their paths and sum per key,
\* visiting sizes in its iteration order.  revs_to_paths[id] panics for an id
\* that has no association.
Aggregate ==
    /\ pc = "aggregate"
    /\ IF \E id \in DOMAIN sizes : id \notin DOMAIN revs_to_paths
       THEN /\ pc' = "panicked"
            /\ exit_code' = 101
            /\ UNCHANGED << file_size_sums, stderr >>
       ELSE /\ \E order \in Perms(DOMAIN sizes) :
                   LET r == Aggregated([sums |-> EmptyMap, warned |-> << >>], order)
                   IN /\ file_size_sums' = r.sums
                      /\ stderr' = stderr \o r.warned
            /\ pc' = "print"
            /\ UNCHANGED exit_code
    /\ UNCHANGED << Inputs, revs_to_paths, paths_to_count, ids, wpc, written,
                    stdin_pipe, stdin_h, sub_pc, sub_pending, responded, stdout_pipe,
                    stdout_h, catfile_status, sizes, nread, stdout, run, first_stdout >>

\* --------------------------------------------------------------- print_sizes
\* Line 144: sizes.sort_by_key(|(_path, size)| *size), a stable sort: each
\* element goes after the elements before it that are not larger.
RECURSIVE SortBySize(_)
SortBySize(vec) ==
    IF vec = << >> THEN << >>
    ELSE LET front == SortBySize(SubSeq(vec, 1, Len(vec) - 1))
             e == vec[Len(vec)]
             k == Cardinality({ i \in DOMAIN front : front[i][2] <= e[2] })
         IN SubSeq(front, 1, k) \o << e >> \o SubSeq(front, k + 1, Len(front))

\* Line 147: one printed line.  ByteSize's rendering of the size belongs to
\* the bytesize crate; the line is kept as the size and the path it shows.
ReportLine(e) == [kind |-> "line", size |-> e[2], path |-> e[1]]

\* main, lines 138-140, and print_sizes: collect file_size_sums into a Vec in
\* its iteration order, sort it by size and print it; main then returns.
PrintSizes ==
    /\ pc = "print"
    /\ \E order \in Perms(DOMAIN file_size_sums) :
           LET vec == [i \in DOMAIN order |-> << order[i], file_size_sums[order[i]] >>]
               sorted == SortBySize(vec)
           IN stdout' = stdout \o [i \in DOMAIN sorted |-> ReportLine(sorted[i])]
    /\ pc' = "done"
    /\ exit_code' = 0
    /\ UNCHANGED << Inputs, revs_to_paths, paths_to_count, ids, wpc, written,
                    stdin_pipe, stdin_h, sub_pc, sub_pending, responded, stdout_pipe,
                    stdout_h, catfile_status, sizes, nread, file_size_sums, stderr, run,
                    first_stdout >>

\* The program is run a second time on the same collaborator outputs; the
\* first run's standard output is kept.
Rerun ==
    /\ run = 1
    /\ exit_code # -1
    /\ run' = 2
    /\ first_stdout' = stdout
    /\ pc' = "start"
    /\ revs_to_paths' = EmptyMap
    /\ paths_to_count' = EmptyMap
    /\ ids' = << >>
    /\ wpc' = "unspawned"
    /\ written' = 0
    /\ stdin_pipe' = << >>
    /\ stdin_h' = "unopened"
    /\ sub_pc' = "none"
    /\ sub_pending' = << >>
    /\ responded' = 0
    /\ stdout_pipe' = << >>
    /\ stdout_h' = "unopened"
    /\ catfile_status' = -1
    /\ sizes' = EmptyMap
    /\ nread' = 0
    /\ file_size_sums' = EmptyMap
    /\ stdout' = << >>
    /\ stderr' = << >>
    /\ exit_code' = -1
    /\ UNCHANGED Inputs

\* ------------------------------------------------------------ specifications
MainThread == Enumerate \/ CountPaths \/ Spawn \/ ReaderStep \/ ReaderEof \/ Join
              \/ Aggregate \/ PrintSizes

WriteThread == WriterWrite \/ WriterClose

CatFile == SubRead \/ SubWrite \/ SubEof

Next == MainThread \/ WriteThread \/ CatFile

NextFault == Next \/ SubCrash

NextTwice == Next \/ Rerun

\* The operating system schedules every runnable thread and process.
Fairness == WF_vars(MainThread) /\ WF_vars(WriteThread) /\ WF_vars(CatFile)

Spec == Init /\ [][Next]_vars

SpecTwice == Init /\ [][NextTwice]_vars

SpecPipes == InitPipes /\ [][Next]_vars

LivePipes == InitPipes /\ [][Next]_vars /\ Fairness

LiveFault == InitPipes /\ [][NextFault]_vars /\ Fairness

\* ----------------------------------------------------- what the claims read
\* The number of object ids the resolver is given.
NumIds == Cardinality(IdsMentioned(revlist_out))

\* The lines print_sizes printed.
ReportLines == SelectSeq(stdout, LAMBDA e : e.kind = "line")

RECURSIVE SumSizes(_)
SumSizes(lines) == IF lines = << >> THEN 0 ELSE Head(lines).size + SumSizes(Tail(lines))

RECURSIVE SetSum(_, _)
SetSum(S, f) == IF S = {} THEN 0
                ELSE LET x == CHOOSE y \in S : TRUE IN f[x] + SetSum(S \ {x}, f)

\* The blobs of the history: the ids rev-list lists that the object database
\* holds as a blob.
HistoryBlobs == { id \in IdsMentioned(revlist_out) :
                     objdb[id].type = TBlob /\ objdb[id].form \in {"ok", "garbled"} }

DiskSize == [id \in IdsMentioned(revlist_out) |-> objdb[id].size]

\* The last path rev-list listed an id at.
LastPathOf(id) ==
    LET at == { i \in 1..Len(revlist_out) :
                   SplitOnce(revlist_out[i]) # << >> /\ SplitOnce(revlist_out[i])[1] = id }
    IN SplitOnce(revlist_out[CHOOSE i \in at : \A j \in at : j <= i])[2]

\* The directory a path lies in, read off the text: what precedes the last
\* '/', the repository root "" for a name without one; the empty path lies
\* in no directory.
DirOf(path) ==
    LET slashes == { i \in 1..Len(path) : path[i] = SLASH }
    IN IF path = << >> THEN << >>
       ELSE IF slashes = {} THEN << << >> >>
       ELSE << SubSeq(path, 1, (CHOOSE i \in slashes : \A j \in slashes : j <= i) - 1) >>

ClaimKey(path) == IF directories THEN DirOf(path) ELSE << path >>

\* A path with exactly one component: a file at the top of the repository.
IsTopLevel(path) == path # << >> /\ \A i \in 1..Len(path) : path[i] # SLASH

HasCommitLine == \E i \in 1..Len(revlist_out) : SplitOnce(revlist_out[i]) = << >>

\* A response line of the form "<id> <type> <size>" with, for a blob, a size
\* that is a non-negative integer.
WellFormed(id) == objdb[id].form = "ok"

Finished == exit_code # -1

\* ------------------------------------------------------------------- C1
\* C1: the size resolver cannot deadlock: while the run has not ended some
\* thread or the child can take a step, and under fair scheduling the
\* resolver returns with all N requests written and all N responses read,
\* for every N and every pair of pipe capacities.
C1_DeadlockFree ==
    /\ [](exit_code = -1 => ENABLED Next)
    /\ <>(pc \in {"aggregate", "print", "done"} /\ written = NumIds /\ nread = NumIds)

\* N exceeds what both pipes and the child can hold together, and the
\* resolver has returned.
C1_Witness ==
    /\ pc = "aggregate"
    /\ NumIds > cap_in + cap_out + 1
    /\ written = NumIds
    /\ nread = NumIds

\* ------------------------------------------------------------------- C2
\* C2: in per-file mode the sizes of the final report add up to the on-disk
\* sizes of the distinct blobs of the history, each counted once.
C2_Conservation ==
    (pc = "done" /\ ~directories) =>
        SumSizes(ReportLines) = SetSum(HistoryBlobs, DiskSize)

C2_Witness ==
    /\ pc = "done"
    /\ ~directories
    /\ Cardinality(HistoryBlobs) = 2
    /\ SumSizes(ReportLines) = 400

\* ------------------------------------------------------------------- C3
\* C3: after aggregation, in either mode, the keys are exactly the keys of
\* the ids that have a resolved size, and each key's total is the sum of the
\* resolved sizes of the ids whose path has that key; ids without a resolved
\* size add nothing.
C3_AggregationInvariant ==
    pc \in {"print", "done"} =>
        LET keyed == { id \in DOMAIN sizes : ClaimKey(revs_to_paths[id]) # << >> }
            keys == { ClaimKey(revs_to_paths[id])[1] : id \in keyed }
        IN /\ DOMAIN file_size_sums = keys
           /\ \A k \in keys :
                  file_size_sums[k] =
                      SetSum({ id \in keyed : ClaimKey(revs_to_paths[id])[1] = k }, sizes)

\* Directory mode, two blobs of the same directory summed under it.
C3_Witness ==
    /\ pc = "done"
    /\ directories
    /\ Cardinality(DOMAIN sizes) = 2
    /\ DOMAIN file_size_sums = { << "d" >> }
    /\ file_size_sums[<< "d" >>] = 400

\* ------------------------------------------------------------------- C4
\* C4: in directory mode a blob at a top-level path is warned about on
\* standard error and adds to no key, so the report has no entry for it, and
\* the run ends with exit code 0.
C4_TopLevelSkipped ==
    (pc = "done" /\ directories) =>
        \A id \in DOMAIN sizes :
            IsTopLevel(revs_to_paths[id]) =>
                /\ \E i \in 1..Len(stderr) : stderr[i].path = revs_to_paths[id]
                /\ << >> \notin DOMAIN file_size_sums
                /\ \A i \in 1..Len(ReportLines) : ReportLines[i].path # << >>
                /\ exit_code = 0

C6_ExitStatusChecked ==
    exit_code = 0 => (revlist_status = 0 /\ catfile_status = 0)

\* ------------------------------------------------------------------- C7
\* C7: once the writer thread has failed, no size map is returned and the
\* run does not end with exit code 0; the reader still reaches end of
\* output, the main thread joins the writer and the run aborts.
C7_WriterFailureSurfaces ==
    /\ [](wpc = "panicked" => (pc \notin {"aggregate", "print", "done"} /\ exit_code # 0))
    /\ ((wpc = "panicked") ~> (exit_code = 101))

\* The writer failed after k < N requests and the run aborted at the join.
C7_Witness ==
    /\ wpc = "panicked"
    /\ written > 0
    /\ written < NumIds
    /\ pc = "panicked"
    /\ exit_code = 101

\* ------------------------------------------------------------------- C8
\* C8: (1) stdin is closed only after all N requests are written; (2) the
\* reader leaves its loop only at end of output, with every response the
\* child produced read; (3) the size map is returned only after the writer
\* is joined; and only the writer puts lines into or closes stdin, only the
\* reader takes lines out of the child's output.
C8_Ordering ==
    /\ [](stdin_h = "closed" => written = NumIds)
    /\ [](pc \in {"join", "aggregate", "print", "done"} =>
             (stdout_h = "closed" /\ stdout_pipe = << >> /\ nread = responded))
    /\ [](pc \in {"aggregate", "print", "done"} => wpc = "done")
    /\ [][ /\ (Len(stdin_pipe') > Len(stdin_pipe) =>
                  (wpc = "writing" /\ written' = written + 1 /\ UNCHANGED << pc, nread >>))
           /\ ((stdin_h = "open" /\ stdin_h' = "closed") =>
                  (wpc = "writing" /\ wpc' = "done" /\ UNCHANGED << pc, nread >>))
           /\ (Len(stdout_pipe') < Len(stdout_pipe) =>
                  (pc = "read" /\ nread' = nread + 1 /\ UNCHANGED << wpc, written >>)) ]_vars

\* The resolver has returned with more requests than the input pipe holds.
C8_Witness ==
    /\ pc = "aggregate"
    /\ wpc = "done"
    /\ NumIds > cap_in
    /\ nread = NumIds

\* ------------------------------------------------------------------- C9
\* C9: two runs on the same collaborator outputs write the same text to
\* standard output, with lines non-decreasing in size.
C9_ByteIdentical ==
    (run = 2 /\ exit_code = 0) =>
        /\ stdout = first_stdout
        /\ \A i \in 1..(Len(ReportLines) - 1) : ReportLines[i].size <= ReportLines[i + 1].size

\* ------------------------------------------------------------------ C10
\* Two distinct blobs of sizes 100 and 300 whose path in the history is the
\* same path p.
SamePathPair(a, b, p) ==
    /\ a \in HistoryBlobs /\ b \in HistoryBlobs /\ a # b
    /\ objdb[a].form = "ok" /\ objdb[b].form = "ok"
    /\ objdb[a].size = 100 /\ objdb[b].size = 300
    /\ LastPathOf(a) = p /\ LastPathOf(b) = p

ReportedAt(p) == { ReportLines[i].size : i \in { j \in 1..Len(ReportLines) : ReportLines[j].path = p } }

\* C10 as stated: only one of the two identifiers keeps its mapping to the
\* path and the per-file report shows one of the two sizes for it.
C10_OnlyOneCounted ==
    (pc = "done" /\ ~directories) =>
        \A a \in HistoryBlobs, b \in HistoryBlobs :
            SamePathPair(a, b, LastPathOf(a)) =>
                /\ Cardinality({ id \in DOMAIN revs_to_paths : revs_to_paths[id] = LastPathOf(a) }) = 1
                /\ ReportedAt(LastPathOf(a)) \subseteq {100, 300}

\* C10 as amended: the map is keyed by identifier, so both identifiers keep
\* their mapping to the path, and the per-file report shows their sum, 400.
C10_BothCounted ==
    (pc = "done" /\ ~directories) =>
        \A a \in HistoryBlobs, b \in HistoryBlobs :
            SamePathPair(a, b, LastPathOf(a)) =>
                /\ revs_to_paths[a] = LastPathOf(a)
                /\ revs_to_paths[b] = LastPathOf(a)
                /\ ReportedAt(LastPathOf(a)) = {400}

C10_Witness ==
    /\ pc = "done"
    /\ ~directories
    /\ \E a \in HistoryBlobs, b \in HistoryBlobs : SamePathPair(a, b, PDX)

====
